---------------------------- MODULE Spec2Model ----------------------------
(***************************************************************************)
(* A model of the Kiwiland railway (src/railway.py): the route map kept in *)
(* Railway.routes, the parser and add_routes that fill it, and the four    *)
(* queries get_route_distance, find_routes_by_stops,                       *)
(* find_routes_by_distance and shortest_route.                             *)
(*                                                                         *)
(* A Python str is a sequence of one-character strings; a dict is a        *)
(* sequence of <<key, value>> pairs in insertion order (the order Python   *)
(* iterates it in); the outer dict, which the code never iterates, is a    *)
(* function from the known stations.                                       *)
(***************************************************************************)
EXTENDS Integers, Sequences, FiniteSets, TLC

VARIABLES
    routes,             \* the class attribute Railway.routes (railway.py:39)
    rails,              \* the Railway objects constructed so far
    raised,             \* the exception the last call raised, or "none"
    pc,                 \* where the running query is
    call,               \* the arguments of the running (or last) query
    result,             \* what the last query returned
    stack,              \* find_routes_by_stops: the frames of the recursion
    earlier,            \* the call and answer the caller kept from before
    nodes_to_visit,     \* shortest_route: its work list
    shortest_distance   \* shortest_route: its best distance so far

vars == <<routes, rails, raised, pc, call, result, stack, earlier,
          nodes_to_visit, shortest_distance>>

-----------------------------------------------------------------------------
(* Bounds of the model. *)

MaxBatch == 2           \* tokens in one construction or add_routes call
MaxRails == 2           \* Railway objects constructed
MaxGiven == 3           \* tokens accepted over all the objects
MaxEdges == 3           \* tokens of the batch that builds a queried map
MaxStops == 3           \* largest stop bound asked for
MaxDistance == 4        \* largest max_distance asked for
MaxLegs == 3            \* destinations given to get_route_distance
RecursionLimit == 10    \* frames Python allows before RecursionError
MaxTravel == 30         \* longest distance shortest_route is followed to

-----------------------------------------------------------------------------
(* Strings. *)

Whitespace == {" "}
Digits == {"0", "1", "2", "3", "4", "5", "6", "7", "8", "9"}
UpperLetters == {"A", "B", "C", "D", "E"}   \* the part of [A-Z] the model uses

RECURSIVE LStrip(_)
LStrip(s) == IF s # <<>> /\ Head(s) \in Whitespace THEN LStrip(Tail(s)) ELSE s

RECURSIVE RStrip(_)
RStrip(s) ==
    IF s # <<>> /\ s[Len(s)] \in Whitespace
    THEN RStrip(SubSeq(s, 1, Len(s) - 1)) ELSE s

\* str.strip()
Strip(s) == RStrip(LStrip(s))

\* str.split(','): always at least one piece, '' for the empty string
RECURSIVE Split(_)
Split(s) ==
    IF \A i \in 1..Len(s) : s[i] # ","
    THEN <<s>>
    ELSE LET k == CHOOSE i \in 1..Len(s) :
                      s[i] = "," /\ \A j \in 1..(i - 1) : s[j] # ","
         IN <<SubSeq(s, 1, k - 1)>> \o Split(SubSeq(s, k + 1, Len(s)))

DigitVal(c) ==
    CASE c = "0" -> 0 [] c = "1" -> 1 [] c = "2" -> 2 [] c = "3" -> 3
      [] c = "4" -> 4 [] c = "5" -> 5 [] c = "6" -> 6 [] c = "7" -> 7
      [] c = "8" -> 8 [] c = "9" -> 9

RECURSIVE DecVal(_)
DecVal(ds) ==
    IF ds = <<>> THEN 0
    ELSE 10 * DecVal(SubSeq(ds, 1, Len(ds) - 1)) + DigitVal(ds[Len(ds)])

\* int(s) on a str: surrounding whitespace is dropped, one sign is allowed,
\* then at least one digit and nothing else; anything else is a ValueError.
PyInt(s) ==
    LET t == Strip(s)
        signed == t # <<>> /\ Head(t) \in {"+", "-"}
        body == IF signed THEN Tail(t) ELSE t
        ok == body # <<>> /\ \A i \in 1..Len(body) : body[i] \in Digits
    IN IF ~ok THEN [ok |-> FALSE, n |-> 0]
       ELSE [ok |-> TRUE,
             n |-> IF signed /\ Head(t) = "-" THEN 0 - DecVal(body)
                   ELSE DecVal(body)]

-----------------------------------------------------------------------------
(* The parser and the route map. *)

ParseError == [ok |-> FALSE, origin |-> "", destination |-> "", distance |-> 0]

validate_and_parse_route(route) ==
    IF Len(route) < 3 THEN ParseError
    ELSE LET origin == route[1]
             destination == route[2]
             distance == PyInt(SubSeq(route, 3, Len(route)))
         IN IF ~distance.ok THEN ParseError
            ELSE IF origin \notin UpperLetters \/ destination \notin UpperLetters
                 THEN ParseError
            ELSE [ok |-> TRUE, origin |-> origin, destination |-> destination,
                  distance |-> distance.n]

EmptyRoutes == <<>>

\* `key in d` and d[key], for an inner dict
HasKey(d, key) == \E i \in 1..Len(d) : d[i][1] = key
Lookup(d, key) == d[CHOOSE i \in 1..Len(d) : d[i][1] = key][2]

\* d[key] = value: a known key keeps its place, a new key goes last
DictSet(d, key, value) ==
    IF HasKey(d, key)
    THEN [i \in 1..Len(d) |-> IF d[i][1] = key THEN <<key, value>> ELSE d[i]]
    ELSE Append(d, <<key, value>>)

\* the body of add_routes' loop, once the token is parsed
Insert(r, origin, destination, distance) ==
    LET r1 == IF origin \in DOMAIN r THEN r ELSE r @@ (origin :> <<>>)
        r2 == IF destination \in DOMAIN r1 THEN r1
              ELSE r1 @@ (destination :> <<>>)
    IN [r2 EXCEPT ![origin] = DictSet(r2[origin], destination, distance)]

\* add_routes on the map r: the tokens before a bad one are inserted, and the
\* bad one raises out of the loop
RECURSIVE add_routes(_, _)
add_routes(r, route_list) ==
    IF route_list = <<>> THEN [routes |-> r, raised |-> "none"]
    ELSE LET p == validate_and_parse_route(Head(route_list))
         IN IF ~p.ok THEN [routes |-> r, raised |-> "ValueError"]
            ELSE add_routes(Insert(r, p.origin, p.destination, p.distance),
                            Tail(route_list))

\* the edges of a map, as a set of <<origin, destination, distance>>
Edges(r) ==
    UNION {{<<o, r[o][i][1], r[o][i][2]>> : i \in 1..Len(r[o])} : o \in DOMAIN r}

\* self.routes: no method ever assigns an attribute `routes` on the object, so
\* the lookup finds the class attribute, the one dict every Railway shares
SelfRoutes(rail) == routes

-----------------------------------------------------------------------------
(* Construction. *)

\* the tokens the construction specification feeds: well formed, and one
\* malformed token of each kind
TokenPool ==
    { <<"A", "B", "1">>, <<"B", "A", "2">>, <<"A", "B", "-", "1">>,
      <<" ", "A", "B", "2", " ">>,
      <<"z", "A", "1">>, <<"A", "B", "z">>, <<"A", "B">> }

RECURSIVE SeqsUpTo(_, _)
SeqsUpTo(S, n) ==
    IF n = 0 THEN {<<>>}
    ELSE LET shorter == SeqsUpTo(S, n - 1)
         IN shorter \cup {Append(b, t) : b \in shorter, t \in S}

Batches == SeqsUpTo(TokenPool, MaxBatch)

\* ', '.join(batch)
RECURSIVE Join(_)
Join(batch) ==
    IF batch = <<>> THEN <<>>
    ELSE IF Len(batch) = 1 THEN Head(batch)
    ELSE Head(batch) \o <<",", " ">> \o Join(Tail(batch))

StripAll(route_list) == [i \in 1..Len(route_list) |-> Strip(route_list[i])]

RECURSIVE SumLen(_)
SumLen(rs) == IF rs = <<>> THEN 0 ELSE Len(Head(rs).given) + SumLen(Tail(rs))

\* how many tokens the objects have accepted so far
Given == SumLen(rails)

NoCall == [op |-> "none"]
NoResult == [kind |-> "none"]
Inf == [inf |-> TRUE, n |-> 0]
Fin(n) == [inf |-> FALSE, n |-> n]

NoEarlier == [call |-> NoCall, result |-> NoResult]

QueryIdle ==
    /\ pc = "idle" /\ call = NoCall /\ result = NoResult /\ stack = <<>>
    /\ earlier = NoEarlier
    /\ nodes_to_visit = <<>> /\ shortest_distance = Inf

QueryUnchanged ==
    UNCHANGED <<pc, call, result, stack, earlier, nodes_to_visit,
                shortest_distance>>

\* __init__ after route_list is computed: add_routes on self.routes; when it
\* raises, no object comes to exist, and what it inserted stays inserted
Railway_init(route_list) ==
    LET r == add_routes(SelfRoutes(Len(rails) + 1), route_list)
    IN /\ r.raised = "none" => Given + Len(route_list) <= MaxGiven
       /\ routes' = r.routes
       /\ raised' = r.raised
       /\ rails' = IF r.raised = "none"
                   THEN Append(rails, [given |-> route_list])
                   ELSE rails

\* Railway([...])
ConstructFromList ==
    /\ Len(rails) < MaxRails
    /\ \E batch \in Batches : Railway_init(StripAll(batch))
    /\ QueryUnchanged

\* Railway('..., ...')
ConstructFromStr ==
    /\ Len(rails) < MaxRails
    /\ \E batch \in Batches : Railway_init(StripAll(Split(Join(batch))))
    /\ QueryUnchanged

\* Railway(x) for x neither a str nor a list
ConstructFromOther ==
    /\ Len(rails) < MaxRails
    /\ raised' = "ValueError"
    /\ UNCHANGED <<routes, rails>>
    /\ QueryUnchanged

\* rail.add_routes([...]) on an object constructed earlier
AddRoutes ==
    \E i \in 1..Len(rails), batch \in Batches :
        /\ Given + Len(batch) <= MaxGiven
        /\ LET r == add_routes(SelfRoutes(i), batch)
               done == IF r.raised = "none" THEN batch
                       ELSE SubSeq(batch, 1,
                                (CHOOSE k \in 1..Len(batch) :
                                    /\ ~validate_and_parse_route(batch[k]).ok
                                    /\ \A j \in 1..(k - 1) :
                                         validate_and_parse_route(batch[j]).ok) - 1)
           IN /\ routes' = r.routes
              /\ raised' = r.raised
              /\ rails' = [rails EXCEPT ![i].given = @ \o done]
        /\ QueryUnchanged

-----------------------------------------------------------------------------
(* What the queries are asked, and on which maps. *)

\* station arguments: the stations of the map, a station of no map, and ''
StationArgs == DOMAIN routes \cup {"Z", ""}

\* a number argument is an int, or a str that int() has to convert
IntArg(n) == [int |-> TRUE, n |-> n, s |-> <<>>]
StrArg(s) == [int |-> FALSE, n |-> 0, s |-> s]
NumberArgs(lo, hi) == {IntArg(n) : n \in lo..hi} \cup {StrArg(<<"2">>), StrArg(<<"Z">>)}

\* `if not isinstance(x, int): try: x = int(x) except: raise ValueError`
ToInt(x) == IF x.int THEN [ok |-> TRUE, n |-> x.n] ELSE PyInt(x.s)

EdgeTokens(digits) ==
    {<<o, d, c>> : o \in {"A", "B"}, d \in {"A", "B"}, c \in digits}

\* the batches a queried map is built from: each edge given once
MapBatches(digits) ==
    {b \in SeqsUpTo(EdgeTokens(digits), MaxEdges) :
        \A i, j \in 1..Len(b) : i # j => <<b[i][1], b[i][2]>> # <<b[j][1], b[j][2]>>}

\* the map main.py starts with (line 3), as __init__ splits and strips it
SampleRoutes ==
    StripAll(Split(<<"A", "B", "5", ",", " ", "B", "C", "4", ",", " ",
                     "C", "D", "8", ",", " ", "D", "C", "8", ",", " ",
                     "D", "E", "6", ",", " ", "A", "D", "5", ",", " ",
                     "C", "E", "2", ",", " ", "E", "B", "3", ",", " ",
                     "A", "E", "7">>))

\* the map of the unit tests (railway_test.py, line 59)
TestRoutes == << <<"A", "B", "1">>, <<"A", "C", "2">>, <<"C", "A", "4">> >>

\* one Railway, constructed from one of the batches
InitMap(batches) ==
    /\ \E batch \in batches :
          /\ routes = add_routes(EmptyRoutes, batch).routes
          /\ rails = <<[given |-> batch]>>
    /\ raised = "none"
    /\ QueryIdle

Raise(e) == [kind |-> e]
None == [kind |-> "None"]
IntResult(n) == [kind |-> "int", n |-> n]
ListResult(rs) == [kind |-> "list", routes |-> rs]
IsException(v) == v.kind \in {"ValueError", "KeyError", "RecursionError"}
RaisedBy(v) == IF IsException(v) THEN v.kind ELSE "none"

\* the caller is done with the answer (or the exception) and asks again
Prompt ==
    /\ pc = "done"
    /\ pc' = "idle"
    /\ call' = NoCall
    /\ result' = NoResult
    /\ raised' = "none"
    /\ stack' = <<>>
    /\ earlier' = NoEarlier
    /\ nodes_to_visit' = <<>>
    /\ shortest_distance' = Inf
    /\ UNCHANGED <<routes, rails>>

-----------------------------------------------------------------------------
(* get_route_distance *)

RECURSIVE get_route_distance(_, _, _)
get_route_distance(r, origin, destinations) ==
    LET destination == destinations[1]
    IN IF origin = "" \/ destination = "" THEN Raise("ValueError")
       ELSE IF origin \notin DOMAIN r THEN Raise("KeyError")
       ELSE IF ~HasKey(r[origin], destination) THEN None
       ELSE LET distance == Lookup(r[origin], destination)
            IN IF Len(destinations) > 1
               THEN LET next_stop_distance ==
                            get_route_distance(r, destination, Tail(destinations))
                    IN IF IsException(next_stop_distance) THEN next_stop_distance
                       \* `not next_stop_distance`: None, and the int 0 as well
                       ELSE IF next_stop_distance = None
                               \/ next_stop_distance = IntResult(0)
                            THEN None
                       ELSE IntResult(distance + next_stop_distance.n)
               ELSE IntResult(distance)

SeqsFromTo(S, lo, hi) == {q \in SeqsUpTo(S, hi) : Len(q) >= lo}

GetRouteDistance ==
    /\ pc = "idle"
    /\ pc' = "done"
    /\ \E origin \in StationArgs, destinations \in SeqsFromTo(StationArgs, 1, MaxLegs) :
          /\ call' = [op |-> "get_route_distance", origin |-> origin,
                      destinations |-> destinations]
          /\ result' = get_route_distance(SelfRoutes(1), origin, destinations)
          /\ raised' = RaisedBy(result')
    /\ UNCHANGED <<routes, rails, stack, earlier, nodes_to_visit,
                   shortest_distance>>

\* what the claims compare the queries with: the walks of a map
NonNegative(r) == \A e \in Edges(r) : e[3] >= 0
Positive(r) == \A e \in Edges(r) : e[3] > 0
IsWalk(r, w) ==
    \A i \in 1..(Len(w) - 1) : w[i] \in DOMAIN r /\ HasKey(r[w[i]], w[i + 1])
RECURSIVE WalkDistance(_, _)
WalkDistance(r, w) ==
    IF Len(w) < 2 THEN 0
    ELSE Lookup(r[w[1]], w[2]) + WalkDistance(r, Tail(w))
\* the walks from origin to destination of lo..hi edges
Walks(r, origin, destination, lo, hi) ==
    {w \in SeqsFromTo(DOMAIN r, lo + 1, hi + 1) :
        w[1] = origin /\ w[Len(w)] = destination /\ IsWalk(r, w)}
Range(q) == {q[i] : i \in 1..Len(q)}

\* C5: on a map of non-negative distances, get_route_distance(origin, d1..dk)
\* with a known origin returns the sum of the k edge distances when every
\* consecutive pair is an edge, an edge of distance 0 included, and None when
\* some pair is no edge.
C5_RouteDistance ==
    (/\ pc = "done" /\ call.op = "get_route_distance"
     /\ NonNegative(routes)
     /\ call.origin \in DOMAIN routes
     /\ \A i \in 1..Len(call.destinations) : call.destinations[i] # "")
    => LET stations == <<call.origin>> \o call.destinations
       IN IF IsWalk(routes, stations)
          THEN result = IntResult(WalkDistance(routes, stations))
          ELSE result = None

InitRoute == InitMap(MapBatches({"0", "1", "2"}))
NextRoute == GetRouteDistance \/ Prompt
SpecRoute == InitRoute /\ [][NextRoute]_vars

-----------------------------------------------------------------------------
(* find_routes_by_distance *)

\* A route [s1, ..., sk, distance] is the record of its stations and its
\* distance; `depth` counts the frames, the outermost call being 1.
RECURSIVE find_routes_by_distance(_, _, _, _, _)
RECURSIVE DistanceLoop(_, _, _, _, _, _, _)

\* line 266 with <= for <: a route as long as the limit would be let in
QualifiesUpToLimit(stop, destination, distance, max_distance) ==
    stop = destination /\ distance <= max_distance

\* line 266: the edge ends the route, and strictly under the limit
Qualifies(stop, destination, distance, max_distance) ==
    stop = destination /\ distance < max_distance

\* the for loop of lines 264-277 from the i-th stop on, `found` being `routes`
DistanceLoop(r, origin, destination, max_distance, depth, i, found) ==
    IF i > Len(r[origin]) THEN ListResult(found)
    ELSE LET stop == r[origin][i][1]
             distance == r[origin][i][2]
             found1 == IF Qualifies(stop, destination, distance, max_distance)
                       THEN Append(found, [path |-> <<origin, stop>>,
                                           distance |-> distance])
                       ELSE found
         IN IF max_distance - distance > 0
            THEN LET subroutes == find_routes_by_distance(
                                      r, stop, destination,
                                      IntArg(max_distance - distance), depth + 1)
                 IN IF IsException(subroutes) THEN subroutes
                    ELSE DistanceLoop(r, origin, destination, max_distance, depth,
                           i + 1,
                           found1 \o [k \in 1..Len(subroutes.routes) |->
                               [path |-> <<origin>> \o subroutes.routes[k].path,
                                distance |-> subroutes.routes[k].distance + distance]])
            ELSE DistanceLoop(r, origin, destination, max_distance, depth,
                              i + 1, found1)

find_routes_by_distance(r, origin, destination, max_distance, depth) ==
    IF depth > RecursionLimit THEN Raise("RecursionError")
    ELSE IF origin = "" \/ destination = "" THEN Raise("ValueError")
    ELSE IF ~ToInt(max_distance).ok THEN Raise("ValueError")
    ELSE IF origin \notin DOMAIN r THEN Raise("KeyError")
    ELSE DistanceLoop(r, origin, destination, ToInt(max_distance).n, depth, 1, <<>>)

FindRoutesByDistance ==
    /\ pc = "idle"
    /\ pc' = "done"
    /\ \E origin \in StationArgs, destination \in StationArgs,
          max_distance \in NumberArgs(0 - 1, MaxDistance) :
          /\ call' = [op |-> "find_routes_by_distance", origin |-> origin,
                      destination |-> destination, max_distance |-> max_distance]
          /\ result' = find_routes_by_distance(SelfRoutes(1), origin, destination,
                                               max_distance, 1)
          /\ raised' = RaisedBy(result')
    /\ UNCHANGED <<routes, rails, stack, earlier, nodes_to_visit,
                   shortest_distance>>

\* the routes find_routes_by_distance is to return
RoutesUnder(r, origin, destination, max_distance) ==
    {[path |-> w, distance |-> WalkDistance(r, w)] :
        w \in {v \in Walks(r, origin, destination, 1, max_distance) :
                  WalkDistance(r, v) < max_distance}}

DistanceAsked ==
    /\ pc = "done" /\ call.op = "find_routes_by_distance"
    /\ Positive(routes)
    /\ call.origin \in DOMAIN routes
    /\ call.destination # ""
    /\ ToInt(call.max_distance).ok

\* C4: on a map of strictly positive distances, with a known origin,
\* find_routes_by_distance returns exactly the walks from origin to destination
\* of at least one edge whose total is strictly less than max_distance, each
\* once and each with the sum of its edges; a walk whose total equals
\* max_distance is left out, and max_distance <= 0 gives the empty list.
C4_RoutesByDistance ==
    DistanceAsked =>
        LET max_distance == ToInt(call.max_distance).n
            expected == RoutesUnder(routes, call.origin, call.destination,
                                    max_distance)
        IN /\ result.kind = "list"
           /\ Range(result.routes) = expected
           /\ Len(result.routes) = Cardinality(expected)
           /\ \A i \in 1..Len(result.routes) :
                 result.routes[i].distance < max_distance
           /\ max_distance <= 0 => result.routes = <<>>

\* a search that returns several routes while a walk as long as the limit
\* exists and is left out
C4_Witness ==
    /\ DistanceAsked
    /\ Len(result.routes) >= 2
    /\ \E w \in Walks(routes, call.origin, call.destination, 1,
                       ToInt(call.max_distance).n) :
          WalkDistance(routes, w) = ToInt(call.max_distance).n

\* C11: on every map the parser can build, zero-distance edges, self-loops and
\* cycles included, find_routes_by_distance terminates with a bounded recursion
\* depth for every known origin, every destination and every integer
\* max_distance: the search returns its list and never exhausts the stack.
C11_DistanceSearchTerminates ==
    ( /\ pc = "done" /\ call.op = "find_routes_by_distance"
      /\ NonNegative(routes)
      /\ call.origin \in DOMAIN routes
      /\ call.destination # ""
      /\ ToInt(call.max_distance).ok )
    => /\ result.kind = "list"
       /\ raised # "RecursionError"

InitDistance == InitMap(MapBatches({"0", "1", "2"}))
NextDistance == FindRoutesByDistance \/ Prompt
SpecDistance == InitDistance /\ [][NextDistance]_vars

-----------------------------------------------------------------------------
(* find_routes_by_stops, one step per call, loop iteration and return. *)
(* A frame is one activation: its origin and stops, where it is (`at`),   *)
(* the index i of the next_stop its loop is at, and its list `routes`.     *)
(* destination and mode are the same in every frame and stay in `call`.    *)

Frame(origin, stops) ==
    [origin |-> origin, stops |-> stops, at |-> "enter", i |-> 1, routes |-> <<>>]

Top == stack[Len(stack)]

\* line 202 without the modes: a direct edge is taken whenever stops >= 1
TakesDirectAnyMode(mode, stops) == stops >= 1

\* line 202: when a direct edge to the destination ends the search here
TakesDirect(mode, stops) ==
    (mode = "max" /\ stops >= 1) \/ (mode = "exact" /\ stops = 1)

\* lines 200-211, for an origin of the map: what the call returns before its
\* loop, or that it goes on to the loop
Enter(r, origin, destination, stops, mode) ==
    LET direct == HasKey(r[origin], destination)
    IN IF TakesDirect(mode, stops) /\ direct
       THEN [return |-> TRUE,
             routes |-> <<[path |-> <<origin, destination>>,
                           distance |-> Lookup(r[origin], destination)]>>]
       ELSE IF TakesDirect(mode, stops) /\ mode = "exact"
       THEN [return |-> TRUE, routes |-> <<>>]
       ELSE IF stops # 1 /\ Len(r[origin]) = 0
       THEN [return |-> TRUE, routes |-> <<>>]
       ELSE [return |-> FALSE, routes |-> <<>>]

\* an exception leaves every frame
StopsRaise(e) ==
    /\ pc' = "done"
    /\ result' = Raise(e)
    /\ raised' = e
    /\ stack' = <<>>

\* the top frame returns subroutes: to the caller of the query, or to the
\* frame under it, which is at lines 215-220 of its loop
StopsDeliver(subroutes) ==
    IF Len(stack) = 1
    THEN /\ pc' = "done"
         /\ result' = ListResult(subroutes)
         /\ stack' = <<>>
         /\ UNCHANGED raised
    ELSE LET f == stack[Len(stack) - 1]
             next_stop == SelfRoutes(1)[f.origin][f.i]
             added == [k \in 1..Len(subroutes) |->
                          [path |-> <<f.origin>> \o subroutes[k].path,
                           distance |-> next_stop[2] + subroutes[k].distance]]
         IN /\ stack' = [SubSeq(stack, 1, Len(stack) - 1)
                            EXCEPT ![Len(stack) - 1] =
                                [f EXCEPT !.routes = @ \o added, !.i = @ + 1]]
            /\ UNCHANGED <<pc, result, raised>>

\* rail.find_routes_by_stops(origin, destination, stops, mode)
FindRoutesByStops ==
    /\ pc = "idle"
    /\ \E origin \in StationArgs, destination \in StationArgs,
          stops \in NumberArgs(0 - 1, MaxStops), mode \in {"max", "exact"} :
          /\ call' = [op |-> "find_routes_by_stops", origin |-> origin,
                      destination |-> destination, stops |-> stops, mode |-> mode]
          /\ stack' = <<Frame(origin, stops)>>
    /\ pc' = "run"
    /\ UNCHANGED <<routes, rails, raised, result, earlier, nodes_to_visit,
                   shortest_distance>>

\* a call begins: lines 188-211
StopsEnter ==
    /\ pc = "run" /\ call.op = "find_routes_by_stops"
    /\ Top.at = "enter"
    /\ IF Len(stack) > RecursionLimit THEN StopsRaise("RecursionError")
       ELSE IF Top.origin = "" \/ call.destination = "" THEN StopsRaise("ValueError")
       ELSE IF ~ToInt(Top.stops).ok THEN StopsRaise("ValueError")
       ELSE IF Top.origin \notin DOMAIN SelfRoutes(1) THEN StopsRaise("KeyError")
       ELSE LET stops == ToInt(Top.stops).n
                e == Enter(SelfRoutes(1), Top.origin, call.destination, stops,
                           call.mode)
            IN IF e.return THEN StopsDeliver(e.routes)
               ELSE /\ stack' = [stack EXCEPT ![Len(stack)] =
                                    [@ EXCEPT !.at = "loop", !.stops = IntArg(stops)]]
                    /\ UNCHANGED <<pc, result, raised>>
    /\ UNCHANGED <<routes, rails, call, earlier, nodes_to_visit, shortest_distance>>

\* line 214: the loop calls find_routes_by_stops(next_stop, ..., stops-1, mode)
StopsRecurse ==
    /\ pc = "run" /\ call.op = "find_routes_by_stops"
    /\ Top.at = "loop"
    /\ Top.i <= Len(SelfRoutes(1)[Top.origin])
    /\ stack' = Append(stack, Frame(SelfRoutes(1)[Top.origin][Top.i][1],
                                    IntArg(Top.stops.n - 1)))
    /\ UNCHANGED <<routes, rails, raised, pc, call, result, earlier,
                   nodes_to_visit, shortest_distance>>

\* line 221: the loop is over
StopsReturn ==
    /\ pc = "run" /\ call.op = "find_routes_by_stops"
    /\ Top.at = "loop"
    /\ Top.i > Len(SelfRoutes(1)[Top.origin])
    /\ StopsDeliver(Top.routes)
    /\ UNCHANGED <<routes, rails, call, earlier, nodes_to_visit, shortest_distance>>

\* the caller keeps the answer and asks the same again with one more stop
AskOneMoreStop ==
    /\ pc = "done" /\ call.op = "find_routes_by_stops"
    /\ call.stops.int /\ call.stops.n < MaxStops
    /\ earlier' = [call |-> call, result |-> result]
    /\ call' = [call EXCEPT !.stops = IntArg(@.n + 1)]
    /\ stack' = <<Frame(call.origin, IntArg(call.stops.n + 1))>>
    /\ pc' = "run"
    /\ result' = NoResult
    /\ raised' = "none"
    /\ UNCHANGED <<routes, rails, nodes_to_visit, shortest_distance>>

\* the routes of lo..hi stops from origin to destination
RoutesOfStops(r, origin, destination, lo, hi) ==
    {[path |-> w, distance |-> WalkDistance(r, w)] :
        w \in Walks(r, origin, destination, lo, hi)}

StopsAsked(mode) ==
    /\ pc = "done" /\ call.op = "find_routes_by_stops" /\ call.mode = mode
    /\ call.origin \in DOMAIN routes
    /\ call.destination # ""
    /\ ToInt(call.stops).ok /\ ToInt(call.stops).n >= 1

\* C1: with a known origin and a stop bound n >= 1, find_routes_by_stops in
\* max mode returns exactly the walks from origin to destination of 1..n edges,
\* each with the sum of its edge distances; none is missing, also when a direct
\* edge origin -> destination exists beside longer walks within the bound.
C1_AtMostStops ==
    StopsAsked("max") =>
        /\ result.kind = "list"
        /\ Range(result.routes) =
               RoutesOfStops(routes, call.origin, call.destination, 1,
                             ToInt(call.stops).n)

\* C6: with a known origin and a stop bound n >= 1, find_routes_by_stops in
\* exact mode returns exactly the walks from origin to destination of exactly
\* n edges, each with the sum of its edge distances; a direct edge is
\* reported only when n = 1.
C6_ExactStops ==
    StopsAsked("exact") =>
        LET n == ToInt(call.stops).n
            expected == RoutesOfStops(routes, call.origin, call.destination, n, n)
        IN /\ result.kind = "list"
           /\ Range(result.routes) = expected
           /\ Len(result.routes) = Cardinality(expected)
           /\ \A k \in 1..Len(result.routes) :
                 Len(result.routes[k].path) = 2 => n = 1

\* an exact search for more than one stop that finds routes although a direct
\* edge origin -> destination exists
C6_Witness ==
    /\ StopsAsked("exact")
    /\ ToInt(call.stops).n >= 2
    /\ HasKey(routes[call.origin], call.destination)
    /\ Len(result.routes) >= 2

MoreStopsAsked ==
    /\ pc = "done" /\ call.op = "find_routes_by_stops" /\ call.mode = "max"
    /\ earlier.call # NoCall
    /\ call.origin = call.destination
    /\ call.origin \in DOMAIN routes
    /\ Len(routes[call.origin]) >= 1
    /\ earlier.call.stops.n >= 1

\* C9: for a station S with an outgoing edge and n >= 1, the max-mode search
\* S -> S with n+1 stops returns at least as many routes as the search with n
\* stops, and every route returned for n is returned for n+1.
C9_MoreStopsKeepRoutes ==
    MoreStopsAsked =>
        /\ earlier.result.kind = "list"
        /\ result.kind = "list"
        /\ Len(result.routes) >= Len(earlier.result.routes)
        /\ Range(earlier.result.routes) \subseteq Range(result.routes)

\* what is left of C9 where the search with n stops did return: the search
\* with n+1 stops returns too, and returns every route of the first
KeptWhereReturned ==
    (MoreStopsAsked /\ earlier.result.kind = "list") =>
        /\ result.kind = "list"
        /\ Range(earlier.result.routes) \subseteq Range(result.routes)

\* C10: find_routes_by_stops terminates in both modes and for every stop
\* bound; a branch whose budget reaches 0 short of the destination is not
\* explored further, so no recursive call has a budget below 0.
C10_BudgetNeverNegative ==
    (/\ call.op = "find_routes_by_stops"
     /\ call.origin \in DOMAIN routes /\ call.destination # ""
     /\ ToInt(call.stops).ok /\ ToInt(call.stops).n >= 0)
    => /\ \A k \in 2..Len(stack) : stack[k].stops.n >= 0
       /\ raised # "RecursionError"

InitStops ==
    InitMap(MapBatches({"1", "2"}) \cup {SampleRoutes, TestRoutes})
NextStops ==
    \/ FindRoutesByStops \/ StopsEnter \/ StopsRecurse \/ StopsReturn
    \/ AskOneMoreStop \/ Prompt
SpecStops == InitStops /\ [][NextStops]_vars

-----------------------------------------------------------------------------
(* shortest_route, one step per iteration of its while loop. *)
(* The loop is followed as long as the distances it reaches stay within    *)
(* MaxTravel; a run that goes beyond is left at pc = "cut".                 *)

\* a < b for an int a and b an int or float('inf')
Less(a, b) == b.inf \/ a < b.n
\* min(b, a)
MinOf(b, a) == IF Less(a, b) THEN Fin(a) ELSE b

\* the test map of shortest_route (railway_test.py, line 93)
ShortestTestRoutes ==
    << <<"A", "B", "1">>, <<"A", "C", "2">>, <<"C", "A", "4">>,
       <<"C", "D", "1">>, <<"D", "A", "1">> >>

\* [(o, stop, distance) for stop in self.routes[o]]
Triples(r, o, distance) ==
    [k \in 1..Len(r[o]) |-> <<o, r[o][k][1], distance>>]

\* lines 320-321: for every stop of d, the whole list of d's triples again
RECURSIVE Repeat(_, _)
Repeat(q, times) == IF times = 0 THEN <<>> ELSE q \o Repeat(q, times - 1)
Expand(r, d, distance) == Repeat(Triples(r, d, distance), Len(r[d]))

\* rail.shortest_route(origin, destination): lines 303-315
ShortestRoute ==
    /\ pc = "idle"
    /\ \E origin \in StationArgs, destination \in StationArgs :
          /\ call' = [op |-> "shortest_route", origin |-> origin,
                      destination |-> destination]
          /\ IF origin = "" \/ destination = ""
             THEN /\ pc' = "done" /\ result' = Raise("ValueError")
                  /\ raised' = "ValueError"
                  /\ UNCHANGED <<shortest_distance, nodes_to_visit>>
             ELSE IF origin \notin DOMAIN SelfRoutes(1)
             THEN /\ pc' = "done" /\ result' = Raise("KeyError")
                  /\ raised' = "KeyError"
                  /\ UNCHANGED <<shortest_distance, nodes_to_visit>>
             ELSE /\ pc' = "run"
                  /\ shortest_distance' =
                        IF HasKey(SelfRoutes(1)[origin], destination)
                        THEN Fin(Lookup(SelfRoutes(1)[origin], destination))
                        ELSE Inf
                  /\ nodes_to_visit' = Triples(SelfRoutes(1), origin, 0)
                  /\ UNCHANGED <<result, raised>>
    /\ UNCHANGED <<routes, rails, stack, earlier>>

\* one iteration of the while loop: lines 317-323
ShortestStep ==
    /\ pc = "run" /\ call.op = "shortest_route"
    /\ Len(nodes_to_visit) > 0
    /\ LET node == nodes_to_visit[Len(nodes_to_visit)]
           rest == SubSeq(nodes_to_visit, 1, Len(nodes_to_visit) - 1)
           o == node[1]
           d == node[2]
           distance_to_origin == node[3]
           distance == Lookup(SelfRoutes(1)[o], d) + distance_to_origin
       IN IF distance > MaxTravel
          THEN /\ pc' = "cut"
               /\ UNCHANGED <<nodes_to_visit, shortest_distance>>
          ELSE /\ pc' = pc
               /\ IF Less(distance, shortest_distance)
                  THEN /\ nodes_to_visit' =
                            rest \o Expand(SelfRoutes(1), d, distance)
                       /\ shortest_distance' =
                            IF d = call.destination
                            THEN MinOf(shortest_distance, distance)
                            ELSE shortest_distance
                  ELSE /\ nodes_to_visit' = rest
                       /\ UNCHANGED shortest_distance
    /\ UNCHANGED <<routes, rails, raised, call, result, stack, earlier>>

\* line 325
ShortestReturn ==
    /\ pc = "run" /\ call.op = "shortest_route"
    /\ Len(nodes_to_visit) = 0
    /\ pc' = "done"
    /\ result' = [kind |-> "distance", distance |-> shortest_distance]
    /\ UNCHANGED <<routes, rails, raised, call, stack, earlier, nodes_to_visit,
                   shortest_distance>>

\* the least distance of a walk of 1..k edges from origin to each station
RECURSIVE Nearest(_, _, _)
Nearest(r, origin, k) ==
    IF k = 1
    THEN [v \in DOMAIN r |-> IF HasKey(r[origin], v)
                             THEN Fin(Lookup(r[origin], v)) ELSE Inf]
    ELSE LET shorter == Nearest(r, origin, k - 1)
             Via(v) == {shorter[u].n + Lookup(r[u], v) :
                          u \in {t \in DOMAIN r : ~shorter[t].inf /\ HasKey(r[t], v)}}
             Candidates(v) ==
                 Via(v) \cup (IF shorter[v].inf THEN {} ELSE {shorter[v].n})
         IN [v \in DOMAIN r |->
                IF Candidates(v) = {} THEN Inf
                ELSE Fin(CHOOSE m \in Candidates(v) :
                             \A n \in Candidates(v) : m <= n)]

\* the least distance of a walk of at least one edge, or Inf when there is
\* none; with positive distances no shortest walk repeats a station between
\* its ends, so as many edges as there are stations are enough
ShortestWalk(r, origin, destination) ==
    IF destination \in DOMAIN r
    THEN Nearest(r, origin, Cardinality(DOMAIN r))[destination]
    ELSE Inf

\* a shortest_route query that has left its loop, or was followed beyond
\* MaxTravel without leaving it
ShortestAsked ==
    /\ pc \in {"done", "cut"}
    /\ call.op = "shortest_route"
    /\ Positive(routes)
    /\ call.origin \in DOMAIN routes
    /\ call.destination # ""

\* C2: on a map of strictly positive distances, when the destination is
\* reachable from the origin by a walk of at least one edge, shortest_route
\* returns the least total distance of such a walk, whatever the insertion
\* order of the edges; for origin = destination that is the shortest return
\* cycle, never 0.
C2_ShortestDistance ==
    (ShortestAsked /\ ~ShortestWalk(routes, call.origin, call.destination).inf)
    => /\ pc # "cut"
       /\ pc = "done" =>
             /\ result = [kind |-> "distance",
                          distance |-> ShortestWalk(routes, call.origin,
                                                    call.destination)]
             /\ result.distance.n > 0

\* C3: on a map of strictly positive distances shortest_route terminates, and
\* when the destination is not reachable from the origin (a destination of no
\* map included) it returns +infinity, also when the origin reaches a cycle.
C3_UnreachableIsInfinity ==
    (ShortestAsked /\ ShortestWalk(routes, call.origin, call.destination).inf)
    => /\ pc # "cut"
       /\ pc = "done" => result = [kind |-> "distance", distance |-> Inf]

InitShortest ==
    InitMap(MapBatches({"1", "2"}) \cup {SampleRoutes, ShortestTestRoutes})
NextShortest == ShortestRoute \/ ShortestStep \/ ShortestReturn \/ Prompt
SpecShortest == InitShortest /\ [][NextShortest]_vars

-----------------------------------------------------------------------------
\* C7: every Railway owns its graph: after Railway(X) and then Railway(Y) the
\* second holds exactly the edges of Y and the first still exactly those of
\* X; constructing or extending one leaves every other unchanged.
C7_OwnGraph ==
    \A i \in 1..Len(rails) :
        Edges(SelfRoutes(i)) = Edges(add_routes(EmptyRoutes, rails[i].given).routes)

\* C8: the parser accepts a token only when its first two characters are
\* uppercase letters and the rest denotes a non-negative integer, 'AB-5' being
\* rejected, so that after any constructions and add_routes calls every
\* distance stored in the graph is >= 0.
C8_StoredDistancesNonNegative ==
    \A e \in Edges(routes) : e[3] >= 0

\* C12: a construction or add_routes call whose batch holds a malformed token
\* fails with a format error and fails as a whole: no edge of that batch, the
\* edges of the well-formed tokens before the bad one included, is in the
\* graph of any object after the failure, i.e. the failing call adds no edge.
C12_FailedBatchLeavesNothing ==
    [][raised' = "ValueError" =>
          \A i \in 1..Len(rails') :
              Edges(SelfRoutes(i)') \subseteq Edges(routes)]_vars

Init ==
    /\ routes = EmptyRoutes
    /\ rails = <<>>
    /\ raised = "none"
    /\ QueryIdle

Next == ConstructFromList \/ ConstructFromStr \/ ConstructFromOther \/ AddRoutes

Spec == Init /\ [][Next]_vars
=============================================================================
